---------------------------- MODULE Spec2Model ----------------------------
(***************************************************************************)
(* Model of the DPS setup optimizer (mdl/celtic).                          *)
(*                                                                         *)
(* The repository holds three variants of the same program:                *)
(*   "ts_dfs"  - src/main.ts            exhaustive DFS, no tolerance       *)
(*   "cpp_dfs" - src/main.cpp           exhaustive DFS, tolerance EPS      *)
(*   "ts_bfs"  - src/unnamed/part_000   breadth-first search that keeps    *)
(*                                      the top states per time checkpoint *)
(*                                                                         *)
(* Numbers.  The program computes with doubles; the model computes with    *)
(* exact values on a grid that resolves the tolerance EPS = 1e-9:          *)
(*   - a time is a pair [w, e]: w hundredths of a second plus e ticks,     *)
(*     one tick being EPS / EpsTicks.  Ticks are far smaller than a        *)
(*     hundredth, so times compare lexicographically;                      *)
(*   - a damage value is an integer number of ticks.  Damage only enters   *)
(*     sums and comparisons, so the unit is immaterial except against EPS. *)
(* A percentage of cooldown reduction is an integer, and a base cooldown   *)
(* is a whole number of seconds, so recast * (1 - pct/100) is exactly      *)
(* recast * (100 - pct) hundredths.                                        *)
(*                                                                         *)
(* A skill's name is its position in the roster (names are unique ids).    *)
(* dfsCallCount / expansions only feed commented-out progress logs and     *)
(* are left out, as is console output.                                     *)
(***************************************************************************)
EXTENDS Integers, Sequences, FiniteSets, TLC

(***************************************************************************)
(* Bounds of the model                                                     *)
(***************************************************************************)
MaxSkills == 2          \* rosters hold 1..MaxSkills skills
MaxTimeLimit == 3       \* timeLimit ranges over 1..MaxTimeLimit seconds

(***************************************************************************)
(* Program constants                                                       *)
(***************************************************************************)
EpsTicks == 2           \* EPS = 1e-9 (main.cpp), measured in ticks
HEAP_CAPACITY == 10000  \* states kept per checkpoint (part_000)
CHECKPOINT_WIDTH == 5   \* seconds per checkpoint bucket (part_000)

(***************************************************************************)
(* Times                                                                   *)
(***************************************************************************)
Time(w, e) == [w |-> w, e |-> e]
Seconds(s) == Time(100 * s, 0)
Zero == Time(0, 0)
EPS == Time(0, EpsTicks)

TLe(a, b) == a.w < b.w \/ (a.w = b.w /\ a.e <= b.e)
TGt(a, b) == ~TLe(a, b)
TAdd(a, b) == Time(a.w + b.w, a.e + b.e)
TMax(a, b) == IF TGt(b, a) THEN b ELSE a

(***************************************************************************)
(* Inputs                                                                  *)
(***************************************************************************)
Skill(c, r, d, g) ==
    [castTimeS |-> c, recastTimeS |-> r, damage |-> d, possibleSkillGear |-> g]

\* The skills rosters are drawn from: two skills with staggered cooldowns, a
\* skill whose cast is shorter than EPS, and one without cooldown whose cast
\* overruns a whole second by EPS.
SkillPool ==
    { Skill(Seconds(1), 2, 3, <<0, 50>>),
      Skill(Seconds(2), 1, 4, <<50, 0>>),
      Skill(Time(0, 1), 2, 1, <<50, 0>>),
      Skill(Time(100, EpsTicks), 0, 2, <<0>>) }

RECURSIVE SeqsUpTo(_, _)
SeqsUpTo(S, n) ==
    IF n = 0 THEN { <<>> }
    ELSE LET shorter == SeqsUpTo(S, n - 1)
         IN  shorter \cup { Append(s, x) : s \in shorter, x \in S }

\* a roster lists 1..MaxSkills different skills, in any order
Rosters ==
    { r \in SeqsUpTo(SkillPool, MaxSkills) \ { <<>> } :
        \A a, b \in 1..Len(r) : a # b => r[a] # r[b] }
TimeLimits == { Seconds(s) : s \in 1..MaxTimeLimit }
Variants == { "ts_dfs", "cpp_dfs", "ts_bfs" }
\* K and W are hardcoded in part_000; the specification treats them as
\* parameters, so the model also runs the search with small values
Capacities == { 1, 2, HEAP_CAPACITY }
Widths == { 2, CHECKPOINT_WIDTH }

VARIABLES
    variant,        \* which source file runs
    skills,         \* the roster
    timeLimit,
    capacity,       \* K: retention capacity per checkpoint (ts_bfs)
    width,          \* W: checkpoint width in seconds (ts_bfs)
    pc,             \* position in findBestDpsSetup
    allGearCombos,
    ci,             \* index of the gear combo under evaluation (1-based)
    sr,             \* the ScheduleResult of the last search
    topDamage, topSequence, bestGear, bestGearCost,
    comboDamages,   \* history: totalDamage returned for each combo so far
    dfsRun,         \* state of the running depth-first search
    bfsRun          \* state of the running breadth-first search

vars == << variant, skills, timeLimit, capacity, width, pc, allGearCombos, ci,
           sr, topDamage, topSequence, bestGear, bestGearCost, comboDamages,
           dfsRun, bfsRun >>

inputs == << variant, skills, timeLimit, capacity, width >>
optimizer == << topDamage, topSequence, bestGear, bestGearCost, comboDamages >>

(***************************************************************************)
(* generateAllGearChoices                                                  *)
(***************************************************************************)
\* SetAt with the slip "current.push(gearPercent)": the element is appended
\* whether or not the position is already filled (C7 must not survive it)
SetAt_AlwaysAppend(current, index, x) == Append(current, x)

\* current[index] = gearPercent on a JS array / pre-sized vector
SetAt(current, index, x) ==
    IF index <= Len(current) THEN [current EXCEPT ![index] = x]
    ELSE Append(current, x)

\* acc = [results, current]; gears from position k on at this index
RECURSIVE backtrack(_, _, _)
RECURSIVE backtrackLoop(_, _, _, _)
backtrack(sk, index, acc) ==
    IF index = Len(sk) + 1
    THEN [acc EXCEPT !.results = Append(acc.results, acc.current)]
    ELSE backtrackLoop(sk, index, 1, acc)
backtrackLoop(sk, index, k, acc) ==
    IF k > Len(sk[index].possibleSkillGear) THEN acc
    ELSE backtrackLoop(sk, index, k + 1,
            backtrack(sk, index + 1,
                [acc EXCEPT !.current =
                    SetAt(acc.current, index, sk[index].possibleSkillGear[k])]))

generateAllGearChoices(sk) ==
    backtrack(sk, 1, [results |-> <<>>, current |-> <<>>]).results

(***************************************************************************)
(* findBestDamageSchedule: what the three variants share                   *)
(***************************************************************************)
\* effectiveRecast with the percentage itself as the factor,
\* "recastTimeS * pct": a larger modifier lengthens the cooldown (C22 must
\* not survive it)
effectiveRecast_TimesPct(sk, gearCombo) ==
    [i \in 1..Len(sk) |-> Time(sk[i].recastTimeS * gearCombo[i], 0)]

\* skill.recastTimeS * (1 - gearCombo[i] / 100), in hundredths of a second
effectiveRecast(sk, gearCombo) ==
    [i \in 1..Len(sk) |-> Time(sk[i].recastTimeS * (100 - gearCombo[i]), 0)]

\* the tolerance a variant adds to timeLimit: EPS in main.cpp, none in the others
Tolerance(v) == IF v = "cpp_dfs" THEN EPS ELSE Zero

\* if (earliestStart > timeLimit) continue;
NotAvailable(earliestStart, limit) == TGt(earliestStart, limit)

\* StartTime without the wait for the cooldown, "startTime = currentTime"
\* (C11 must not survive it)
StartTime_IgnoresCooldown(currentTime, earliestStart) == currentTime

\* startTime = max(currentTime, earliestStart); castEnd = startTime + castTimeS
StartTime(currentTime, earliestStart) == TMax(currentTime, earliestStart)
CastEnd(startTime, skill) == TAdd(startTime, skill.castTimeS)

\* TooLate with the comparison turned round, "if (castEnd < timeLimit) continue"
\* (C10 must not survive it)
TooLate_Swapped(v, castEnd, limit) == TGt(TAdd(limit, Tolerance(v)), castEnd)

\* if (castEnd > timeLimit [+ EPS]) continue;
TooLate(v, castEnd, limit) == TGt(castEnd, TAdd(limit, Tolerance(v)))

\* Skipped with the second test made on startTime instead of castEnd
\* (C2 must not survive it)
Skipped_ChecksStart(v, sk, limit, currentTime, nextAvail, i) ==
    \/ NotAvailable(nextAvail[i], limit)
    \/ TooLate(v, StartTime(currentTime, nextAvail[i]), limit)

\* the two "continue" tests of the loop body, for skill i in a given state
Skipped(v, sk, limit, currentTime, nextAvail, i) ==
    \/ NotAvailable(nextAvail[i], limit)
    \/ TooLate(v, CastEnd(StartTime(currentTime, nextAvail[i]), sk[i]), limit)

\* NextAvailAfter with the recast time left out, "nextAvail[i] = castEnd"
\* (C9 must not survive it)
NextAvailAfter_NoCooldown(castEnd, recast) == castEnd

\* nextAvail[i] = castEnd + effectiveRecast[i]
NextAvailAfter(castEnd, recast) == TAdd(castEnd, recast)

\* if (totalDamage > bestDamageSoFar) { best = (totalDamage, copy of sequence) }
IsNewBest(damage, bestDamage) == damage > bestDamage

\* AddDamage with the running total dropped, "skill.damage" for
\* "totalDamageSoFar + skill.damage" (C8 must not survive it)
AddDamage_Overwrite(damageSoFar, skill) == skill.damage

\* totalDamageSoFar + skill.damage
AddDamage(damageSoFar, skill) == damageSoFar + skill.damage

\* one entry of the cast log: which skill, when it started and ended
LogEntry(i, startTime, castEnd) == [skill |-> i, start |-> startTime, end |-> castEnd]

(***************************************************************************)
(* The exhaustive search as a function (main.ts 78-141, main.cpp 74-118):  *)
(* dfs returns the best (damage, sequence) after visiting the subtree.     *)
(* ctx = [v, sk, recast, limit]; best = [totalDamage, sequence].           *)
(***************************************************************************)
RECURSIVE dfs(_, _, _, _, _, _)
RECURSIVE dfsLoop(_, _, _, _, _, _, _)
dfs(ctx, currentTime, totalDamageSoFar, nextAvailTimes, castSequence, best) ==
    dfsLoop(ctx, 1, currentTime, totalDamageSoFar, nextAvailTimes, castSequence,
            IF IsNewBest(totalDamageSoFar, best.totalDamage)
            THEN [totalDamage |-> totalDamageSoFar, sequence |-> castSequence]
            ELSE best)
dfsLoop(ctx, i, currentTime, totalDamageSoFar, nextAvailTimes, castSequence, best) ==
    IF i > Len(ctx.sk) THEN best
    ELSE IF Skipped(ctx.v, ctx.sk, ctx.limit, currentTime, nextAvailTimes, i)
    THEN dfsLoop(ctx, i + 1, currentTime, totalDamageSoFar, nextAvailTimes,
                 castSequence, best)
    ELSE LET castEnd == CastEnd(StartTime(currentTime, nextAvailTimes[i]), ctx.sk[i])
             \* the best after the recursive call for skill i has returned
             returned == dfs(ctx, castEnd, AddDamage(totalDamageSoFar, ctx.sk[i]),
                             [nextAvailTimes EXCEPT
                                ![i] = NextAvailAfter(castEnd, ctx.recast[i])],
                             Append(castSequence, i), best)
         \* the call returns before the loop goes on to i + 1; the best never
         \* decreases, so the test only fixes that order of evaluation
         IN  IF returned.totalDamage >= best.totalDamage
             THEN dfsLoop(ctx, i + 1, currentTime, totalDamageSoFar, nextAvailTimes,
                          castSequence, returned)
             ELSE best

\* findBestDamageSchedule of the exhaustive variants, as a function of its inputs
ExhaustiveSearch(v, sk, gearCombo, limit) ==
    dfs([v |-> v, sk |-> sk, recast |-> effectiveRecast(sk, gearCombo),
         limit |-> limit],
        Zero, 0, [i \in 1..Len(sk) |-> Zero], <<>>,
        [totalDamage |-> 0, sequence |-> <<>>])

(***************************************************************************)
(* The exhaustive search as a machine: one step per loop iteration, with   *)
(* the recursion on an explicit stack and the shared, mutated              *)
(* nextAvailTimes / castSequence buffers.                                  *)
(***************************************************************************)
DfsIdle ==
    [bestDamageSoFar |-> 0, bestSequenceSoFar |-> <<>>, nextAvailTimes |-> <<>>,
     castSequence |-> <<>>, castLog |-> <<>>, stack |-> <<>>]

Frame(currentTime, totalDamageSoFar) ==
    [currentTime |-> currentTime, totalDamageSoFar |-> totalDamageSoFar,
     i |-> 1, oldNextAvail |-> Zero]

\* entering dfs(currentTime, totalDamageSoFar, ...): record a new best, start the loop
DfsEnter(d, currentTime, totalDamageSoFar) ==
    LET isBest == IsNewBest(totalDamageSoFar, d.bestDamageSoFar)
    IN  [d EXCEPT
            !.bestDamageSoFar = IF isBest THEN totalDamageSoFar ELSE @,
            !.bestSequenceSoFar = IF isBest THEN d.castSequence ELSE @,
            !.stack = Append(@, Frame(currentTime, totalDamageSoFar))]

\* DfsStart with the best tracking kept from the call before, as if
\* bestDamageSoFar and bestSequenceSoFar were declared outside
\* findBestDamageSchedule (C14 must not survive it)
DfsStart_KeepsBest(sk) ==
    DfsEnter([DfsIdle EXCEPT !.nextAvailTimes = [i \in 1..Len(sk) |-> Zero],
                             !.bestDamageSoFar = dfsRun.bestDamageSoFar,
                             !.bestSequenceSoFar = dfsRun.bestSequenceSoFar],
             Zero, 0)

\* the state findBestDamageSchedule builds before its first dfs call
DfsStart(sk) ==
    DfsEnter([DfsIdle EXCEPT !.nextAvailTimes = [i \in 1..Len(sk) |-> Zero]], Zero, 0)

Top(d) == d.stack[Len(d.stack)]
Recast == effectiveRecast(skills, allGearCombos[ci])
IsDfs == variant \in { "ts_dfs", "cpp_dfs" }

\* DfsAfterCast with the cooldown counted from the time the cast was chosen,
\* "nextAvailTimes[i] = currentTime + effectiveRecast[i]" (C20 must not
\* survive it)
DfsAfterCast_FromCurrentTime(d, sk, recast) ==
    LET top == Top(d)
        i == top.i
        startTime == StartTime(top.currentTime, d.nextAvailTimes[i])
        castEnd == CastEnd(startTime, sk[i])
        saved == [d EXCEPT
                    !.stack[Len(d.stack)].oldNextAvail = d.nextAvailTimes[i],
                    !.nextAvailTimes[i] = NextAvailAfter(top.currentTime, recast[i]),
                    !.castSequence = Append(@, i),
                    !.castLog = Append(@, LogEntry(i, startTime, castEnd))]
    IN  DfsEnter(saved, castEnd, AddDamage(top.totalDamageSoFar, sk[i]))

\* the cast of skill i from the top frame: save, mutate, push, recurse
DfsAfterCast(d, sk, recast) ==
    LET top == Top(d)
        i == top.i
        startTime == StartTime(top.currentTime, d.nextAvailTimes[i])
        castEnd == CastEnd(startTime, sk[i])
        saved == [d EXCEPT
                    !.stack[Len(d.stack)].oldNextAvail = d.nextAvailTimes[i],
                    !.nextAvailTimes[i] = NextAvailAfter(castEnd, recast[i]),
                    !.castSequence = Append(@, i),
                    !.castLog = Append(@, LogEntry(i, startTime, castEnd))]
    IN  DfsEnter(saved, castEnd, AddDamage(top.totalDamageSoFar, sk[i]))

\* DfsAfterReturn without the restore of nextAvailTimes[i] (main.ts 129,
\* main.cpp 111 left out; C15 must not survive it)
DfsAfterReturn_NoRestore(d) ==
    LET n == Len(d.stack)
        caller == d.stack[n - 1]
    IN  [d EXCEPT
            !.stack = [SubSeq(d.stack, 1, n - 1) EXCEPT
                         ![n - 1] = [caller EXCEPT !.i = @ + 1,
                                                   !.oldNextAvail = Zero]],
            !.castSequence = SubSeq(@, 1, Len(@) - 1),
            !.castLog = SubSeq(@, 1, Len(@) - 1)]

\* the return of a recursive call into its caller: pop, restore, next i
DfsAfterReturn(d) ==
    LET n == Len(d.stack)
        caller == d.stack[n - 1]
    IN  [d EXCEPT
            !.stack = [SubSeq(d.stack, 1, n - 1) EXCEPT
                         ![n - 1] = [caller EXCEPT !.i = @ + 1,
                                                   !.oldNextAvail = Zero]],
            !.castSequence = SubSeq(@, 1, Len(@) - 1),
            !.castLog = SubSeq(@, 1, Len(@) - 1),
            !.nextAvailTimes[caller.i] = caller.oldNextAvail]

DfsSkip ==
    /\ pc = "search" /\ IsDfs
    /\ Top(dfsRun).i <= Len(skills)
    /\ Skipped(variant, skills, timeLimit, Top(dfsRun).currentTime,
               dfsRun.nextAvailTimes, Top(dfsRun).i)
    /\ dfsRun' = [dfsRun EXCEPT !.stack[Len(dfsRun.stack)].i = @ + 1]
    /\ UNCHANGED << inputs, optimizer, pc, allGearCombos, ci, sr, bfsRun >>

DfsCast ==
    /\ pc = "search" /\ IsDfs
    /\ Top(dfsRun).i <= Len(skills)
    /\ ~Skipped(variant, skills, timeLimit, Top(dfsRun).currentTime,
                dfsRun.nextAvailTimes, Top(dfsRun).i)
    /\ dfsRun' = DfsAfterCast(dfsRun, skills, Recast)
    /\ UNCHANGED << inputs, optimizer, pc, allGearCombos, ci, sr, bfsRun >>

DfsReturn ==
    /\ pc = "search" /\ IsDfs
    /\ Top(dfsRun).i > Len(skills)
    /\ Len(dfsRun.stack) > 1
    /\ dfsRun' = DfsAfterReturn(dfsRun)
    /\ UNCHANGED << inputs, optimizer, pc, allGearCombos, ci, sr, bfsRun >>

\* the top-level dfs call returns; findBestDamageSchedule returns the best
DfsFinish ==
    /\ pc = "search" /\ IsDfs
    /\ Top(dfsRun).i > Len(skills)
    /\ Len(dfsRun.stack) = 1
    /\ dfsRun' = [dfsRun EXCEPT !.stack = <<>>]
    /\ sr' = [totalDamage |-> dfsRun.bestDamageSoFar,
              sequence |-> dfsRun.bestSequenceSoFar]
    /\ pc' = "compare"
    /\ UNCHANGED << inputs, optimizer, allGearCombos, ci, bfsRun >>


(***************************************************************************)
(* The bounded-frontier search (part_000 36-155) as a machine: one step    *)
(* per dequeue and one per iteration of the expansion loop.  The fields     *)
(* dropped, evicted and pruned are history: whether this search has        *)
(* evicted or pruned a state, the states heap.dequeue() has removed from   *)
(* a heap, and the successors that were not kept.                          *)
(***************************************************************************)
State(currentTime, damageSoFar, nextAvail, castSequence, castLog) ==
    [currentTime |-> currentTime, damageSoFar |-> damageSoFar,
     nextAvail |-> nextAvail, castSequence |-> castSequence, castLog |-> castLog]

Initial(sk) == State(Zero, 0, [i \in 1..Len(sk) |-> Zero], <<>>, <<>>)

BfsIdle ==
    [queue |-> <<>>, topStatesPerCheckpoint |-> <<>>, bestDamage |-> 0,
     bestSequence |-> <<>>, state |-> Initial(<<>>), i |-> 1, dropped |-> FALSE,
     evicted |-> {}, pruned |-> {}]

\* queue holds the initial state; no state is being expanded (i is past the loop)
BfsStart(sk) ==
    [BfsIdle EXCEPT !.queue = << Initial(sk) >>, !.i = Len(sk) + 1]

\* Math.floor(castEnd / W) * W, castEnd in hundredths (plus ticks, which are >= 0)
Checkpoint(castEnd, w) == (castEnd.w \div (100 * w)) * w

\* topStatesPerCheckpoint[cp] after ensureQueueForCheckpoint(cp)
HeapAt(b, cp) ==
    IF cp \in DOMAIN b.topStatesPerCheckpoint
    THEN b.topStatesPerCheckpoint[cp] ELSE <<>>

SetHeap(b, cp, heap) ==
    [b EXCEPT !.topStatesPerCheckpoint =
        [c \in DOMAIN @ \cup { cp } |-> IF c = cp THEN heap ELSE @[c]]]

\* the priority of heap.front(): the least damageSoFar in the heap
MinDamage(heap) ==
    CHOOSE m \in { heap[j].damageSoFar : j \in 1..Len(heap) } :
        \A j \in 1..Len(heap) : m <= heap[j].damageSoFar

RemoveAt(heap, j) == SubSeq(heap, 1, j - 1) \o SubSeq(heap, j + 1, Len(heap))

\* NewState with newNextAvail left as copied from the parent state: the cast
\* skill's cooldown is never recorded (C3 must not survive it)
NewState_KeepsAvail(b, sk, recast) ==
    LET i == b.i
        startTime == StartTime(b.state.currentTime, b.state.nextAvail[i])
        castEnd == CastEnd(startTime, sk[i])
    IN  State(castEnd, AddDamage(b.state.damageSoFar, sk[i]),
              b.state.nextAvail,
              Append(b.state.castSequence, i),
              Append(b.state.castLog, LogEntry(i, startTime, castEnd)))

\* the successor of b.state by a cast of skill b.i
NewState(b, sk, recast) ==
    LET i == b.i
        startTime == StartTime(b.state.currentTime, b.state.nextAvail[i])
        castEnd == CastEnd(startTime, sk[i])
    IN  State(castEnd, AddDamage(b.state.damageSoFar, sk[i]),
              [b.state.nextAvail EXCEPT ![i] = NextAvailAfter(castEnd, recast[i])],
              Append(b.state.castSequence, i),
              Append(b.state.castLog, LogEntry(i, startTime, castEnd)))

\* HasRoom with <= for <: a full heap takes one more state (C16 must not
\* survive it)
HasRoom_OffByOne(heap, k) == Len(heap) <= k

\* heap.size() < capacity
HasRoom(heap, k) == Len(heap) < k

\* BeatsWorst with >= for >: a successor that only ties the minimum evicts
\* it (C17 must not survive it)
BeatsWorst_NotStrict(newDamage, heap) ==
    Len(heap) > 0 /\ newDamage >= MinDamage(heap)

\* worstTopState && newDamage > worstTopState.damageSoFar
BeatsWorst(newDamage, heap) == Len(heap) > 0 /\ newDamage > MinDamage(heap)

BfsExpanding == pc = "search" /\ variant = "ts_bfs" /\ bfsRun.i <= Len(skills)

BfsUnchanged == UNCHANGED << inputs, optimizer, pc, allGearCombos, ci, sr, dfsRun >>

\* const state = queue.dequeue(); update the global best
BfsDequeue ==
    /\ pc = "search" /\ variant = "ts_bfs"
    /\ bfsRun.i > Len(skills)
    /\ bfsRun.queue # <<>>
    /\ LET state == Head(bfsRun.queue)
           isBest == IsNewBest(state.damageSoFar, bfsRun.bestDamage)
       IN  bfsRun' = [bfsRun EXCEPT
                        !.queue = Tail(@),
                        !.state = state,
                        !.i = 1,
                        !.bestDamage = IF isBest THEN state.damageSoFar ELSE @,
                        !.bestSequence = IF isBest THEN state.castSequence ELSE @]
    /\ BfsUnchanged

BfsSkip ==
    /\ BfsExpanding
    /\ Skipped(variant, skills, timeLimit, bfsRun.state.currentTime,
               bfsRun.state.nextAvail, bfsRun.i)
    /\ bfsRun' = [bfsRun EXCEPT !.i = @ + 1]
    /\ BfsUnchanged

\* there is room in the checkpoint's heap: keep the new state and enqueue it
BfsKeep ==
    /\ BfsExpanding
    /\ ~Skipped(variant, skills, timeLimit, bfsRun.state.currentTime,
                bfsRun.state.nextAvail, bfsRun.i)
    /\ LET newState == NewState(bfsRun, skills, Recast)
           cp == Checkpoint(newState.currentTime, width)
           heap == HeapAt(bfsRun, cp)
       IN  /\ HasRoom(heap, capacity)
           /\ bfsRun' = [SetHeap(bfsRun, cp, Append(heap, newState)) EXCEPT
                            !.queue = Append(@, newState), !.i = @ + 1]
    /\ BfsUnchanged

\* the heap is full and the new state beats its minimum: replace a minimum
BfsReplace ==
    /\ BfsExpanding
    /\ ~Skipped(variant, skills, timeLimit, bfsRun.state.currentTime,
                bfsRun.state.nextAvail, bfsRun.i)
    /\ LET newState == NewState(bfsRun, skills, Recast)
           cp == Checkpoint(newState.currentTime, width)
           heap == HeapAt(bfsRun, cp)
       IN  /\ ~HasRoom(heap, capacity)
           /\ BeatsWorst(newState.damageSoFar, heap)
           /\ \E j \in 1..Len(heap) :
                /\ heap[j].damageSoFar = MinDamage(heap)
                /\ bfsRun' = [SetHeap(bfsRun, cp, Append(RemoveAt(heap, j), newState))
                                EXCEPT !.queue = Append(@, newState), !.i = @ + 1,
                                       !.dropped = TRUE,
                                       !.evicted = @ \cup { heap[j] }]
    /\ BfsUnchanged

\* the heap is full and the new state does not beat its minimum: prune
BfsPrune ==
    /\ BfsExpanding
    /\ ~Skipped(variant, skills, timeLimit, bfsRun.state.currentTime,
                bfsRun.state.nextAvail, bfsRun.i)
    /\ LET newState == NewState(bfsRun, skills, Recast)
           cp == Checkpoint(newState.currentTime, width)
           heap == HeapAt(bfsRun, cp)
       IN  /\ ~HasRoom(heap, capacity)
           /\ ~BeatsWorst(newState.damageSoFar, heap)
           /\ bfsRun' = [SetHeap(bfsRun, cp, heap) EXCEPT
                            !.i = @ + 1, !.dropped = TRUE,
                            !.pruned = @ \cup { newState }]
    /\ BfsUnchanged

\* the queue is empty: findBestDamageSchedule returns the best
BfsFinish ==
    /\ pc = "search" /\ variant = "ts_bfs"
    /\ bfsRun.i > Len(skills)
    /\ bfsRun.queue = <<>>
    /\ sr' = [totalDamage |-> bfsRun.bestDamage, sequence |-> bfsRun.bestSequence]
    /\ pc' = "compare"
    /\ UNCHANGED << inputs, optimizer, allGearCombos, ci, dfsRun, bfsRun >>

(***************************************************************************)
(* The bounded-frontier search as a function (part_000 36-155) of its      *)
(* inputs, the capacity k and the width w.  b has the fields of bfsRun.     *)
(* Which of several minimal entries heap.dequeue() removes does not matter  *)
(* to what is kept later, which looks at damages only; the first is taken.  *)
(***************************************************************************)
FirstMin(heap) ==
    CHOOSE j \in 1..Len(heap) :
        /\ heap[j].damageSoFar = MinDamage(heap)
        /\ \A l \in 1..(j - 1) : heap[l].damageSoFar # MinDamage(heap)

RECURSIVE bfsExpand(_, _)
bfsExpand(ctx, b) ==
    IF b.i > Len(ctx.sk) THEN b
    ELSE IF Skipped("ts_bfs", ctx.sk, ctx.limit, b.state.currentTime,
                    b.state.nextAvail, b.i)
    THEN bfsExpand(ctx, [b EXCEPT !.i = @ + 1])
    ELSE LET newState == NewState(b, ctx.sk, ctx.recast)
             cp == Checkpoint(newState.currentTime, ctx.w)
             heap == HeapAt(b, cp)
         IN  IF HasRoom(heap, ctx.k)
             THEN bfsExpand(ctx,
                    [SetHeap(b, cp, Append(heap, newState)) EXCEPT
                        !.queue = Append(@, newState), !.i = @ + 1])
             ELSE IF BeatsWorst(newState.damageSoFar, heap)
             THEN bfsExpand(ctx,
                    [SetHeap(b, cp, Append(RemoveAt(heap, FirstMin(heap)), newState))
                        EXCEPT !.queue = Append(@, newState), !.i = @ + 1,
                               !.dropped = TRUE])
             ELSE bfsExpand(ctx,
                    [SetHeap(b, cp, heap) EXCEPT !.i = @ + 1, !.dropped = TRUE])

RECURSIVE bfsLoop(_, _)
bfsLoop(ctx, b) ==
    IF b.queue = <<>>
    THEN [totalDamage |-> b.bestDamage, sequence |-> b.bestSequence]
    ELSE LET state == Head(b.queue)
             isBest == IsNewBest(state.damageSoFar, b.bestDamage)
             expanded ==
                 bfsExpand(ctx,
                    [b EXCEPT
                        !.queue = Tail(@),
                        !.state = state,
                        !.i = 1,
                        !.bestDamage = IF isBest THEN state.damageSoFar ELSE @,
                        !.bestSequence = IF isBest THEN state.castSequence ELSE @])
         \* the expansion is over (i is past the last skill) before the next dequeue
         IN  IF expanded.i > Len(ctx.sk) THEN bfsLoop(ctx, expanded) ELSE expanded

BoundedSearch(sk, gearCombo, limit, k, w) ==
    bfsLoop([sk |-> sk, recast |-> effectiveRecast(sk, gearCombo), limit |-> limit,
             k |-> k, w |-> w],
            BfsStart(sk))

(***************************************************************************)
(* findBestDpsSetup                                                        *)
(***************************************************************************)
RECURSIVE SumTo(_, _)
SumTo(s, n) == IF n = 0 THEN 0 ELSE SumTo(s, n - 1) + s[n]
\* gearCombo.reduce((a, b) => a + b, 0)
GearCost(gearCombo) == SumTo(gearCombo, Len(gearCombo))

\* bestGearCost: Number.POSITIVE_INFINITY or a sum of percentages
Infinity == [inf |-> TRUE, v |-> 0]
Finite(c) == [inf |-> FALSE, v |-> c]
CostLess(c, best) == best.inf \/ c < best.v

Abs(x) == IF x < 0 THEN -x ELSE x

\* StrictlyBetter with the comparison turned round, "totalDamage < topDamage"
\* (C5 must not survive it)
StrictlyBetter_Inverted(damage, top) == damage < top

\* totalDamage > topDamage
StrictlyBetter(damage, top) == damage > top

\* the tie test: === in the TypeScript files, fabs(a - b) < EPS in main.cpp
IsTie(v, damage, top) ==
    IF v = "cpp_dfs" THEN Abs(damage - top) < EpsTicks ELSE damage = top

GenerateCombos ==
    /\ pc = "start"
    /\ allGearCombos' = generateAllGearChoices(skills)
    /\ ci' = 1
    /\ pc' = "loop"
    /\ UNCHANGED << inputs, optimizer, sr, dfsRun, bfsRun >>

\* the loop body up to the call of findBestDamageSchedule
CallSearch ==
    /\ pc = "loop"
    /\ ci <= Len(allGearCombos)
    /\ dfsRun' = IF IsDfs THEN DfsStart(skills) ELSE dfsRun
    /\ bfsRun' = IF IsDfs THEN bfsRun ELSE BfsStart(skills)
    /\ pc' = "search"
    /\ UNCHANGED << inputs, optimizer, allGearCombos, ci, sr >>

\* the loop body after the call: keep the better setup, cheaper gear on a tie
UpdateTop ==
    /\ pc = "compare"
    /\ LET gearCombo == allGearCombos[ci]
           thisCost == GearCost(gearCombo)
       IN  IF StrictlyBetter(sr.totalDamage, topDamage)
           THEN /\ topDamage' = sr.totalDamage
                /\ topSequence' = sr.sequence
                /\ bestGear' = gearCombo
                /\ bestGearCost' = Finite(thisCost)
           ELSE IF IsTie(variant, sr.totalDamage, topDamage)
                   /\ CostLess(thisCost, bestGearCost)
           THEN /\ bestGear' = gearCombo
                /\ bestGearCost' = Finite(thisCost)
                /\ topSequence' = sr.sequence
                /\ UNCHANGED topDamage
           ELSE UNCHANGED << topDamage, topSequence, bestGear, bestGearCost >>
    /\ comboDamages' = Append(comboDamages, sr.totalDamage)
    /\ ci' = ci + 1
    /\ pc' = "loop"
    /\ UNCHANGED << inputs, allGearCombos, sr, dfsRun, bfsRun >>

\* the loop is over: findBestDpsSetup returns (topDamage, bestGear, topSequence)
Finish ==
    /\ pc = "loop"
    /\ ci > Len(allGearCombos)
    /\ pc' = "done"
    /\ UNCHANGED << inputs, optimizer, allGearCombos, ci, sr, dfsRun, bfsRun >>

Init ==
    /\ variant \in Variants
    /\ skills \in Rosters
    /\ timeLimit \in TimeLimits
    /\ capacity \in (IF variant = "ts_bfs" THEN Capacities ELSE { HEAP_CAPACITY })
    /\ width \in (IF variant = "ts_bfs" THEN Widths ELSE { CHECKPOINT_WIDTH })
    /\ pc = "start"
    /\ allGearCombos = <<>>
    /\ ci = 1
    /\ sr = [totalDamage |-> 0, sequence |-> <<>>]
    /\ topDamage = 0
    /\ topSequence = <<>>
    /\ bestGear = <<>>
    /\ bestGearCost = Infinity
    /\ comboDamages = <<>>
    /\ dfsRun = DfsIdle
    /\ bfsRun = BfsIdle

Next ==
    \/ GenerateCombos
    \/ CallSearch
    \/ DfsSkip
    \/ DfsCast
    \/ DfsReturn
    \/ DfsFinish
    \/ BfsDequeue
    \/ BfsSkip
    \/ BfsKeep
    \/ BfsReplace
    \/ BfsPrune
    \/ BfsFinish
    \/ UpdateTop
    \/ Finish

Spec == Init /\ [][Next]_vars


(***************************************************************************)
(* Reference definitions the properties are stated with.  They restate the *)
(* data model of the specification and use none of the operators above.    *)
(***************************************************************************)
Searching == pc \in { "search", "compare" }
Returned == pc = "compare"
Gear == allGearCombos[ci]
NSkills == Len(skills)

\* effectiveCooldown_i = baseCooldown_i * (1 - modifier_i / 100)
RefCooldown(i) == [w |-> skills[i].recastTimeS * (100 - Gear[i]), e |-> 0]
RefLe(a, b) == a.w < b.w \/ (a.w = b.w /\ a.e <= b.e)
RefPlus(a, b) == [w |-> a.w + b.w, e |-> a.e + b.e]
RefEps == [w |-> 0, e |-> EpsTicks]

\* Replay of a cast sequence from the root state: the time, the per-action
\* nextAvailableTime, and for every cast its action, start, end and the
\* action's nextAvailableTime just before the cast.
RECURSIVE Replay(_)
Replay(seq) ==
    IF seq = <<>>
    THEN [time |-> [w |-> 0, e |-> 0],
          avail |-> [i \in 1..NSkills |-> [w |-> 0, e |-> 0]],
          casts |-> <<>>]
    ELSE LET prev == Replay(SubSeq(seq, 1, Len(seq) - 1))
             i == seq[Len(seq)]
             start == IF RefLe(prev.time, prev.avail[i]) THEN prev.avail[i]
                      ELSE prev.time
             end == RefPlus(start, skills[i].castTimeS)
         IN  [time |-> end,
              avail |-> [prev.avail EXCEPT ![i] = RefPlus(end, RefCooldown(i))],
              casts |-> Append(prev.casts,
                          [skill |-> i, start |-> start, end |-> end,
                           avail |-> prev.avail[i]])]

RECURSIVE RefDamage(_)
RefDamage(seq) ==
    IF seq = <<>> THEN 0
    ELSE RefDamage(SubSeq(seq, 1, Len(seq) - 1)) + skills[seq[Len(seq)]].damage

MaxOf(S) == CHOOSE m \in S : \A x \in S : x <= m

\* every cast of the sequence ends at or before timeLimit + tol
EndsWithin(seq, tol) ==
    LET casts == Replay(seq).casts
    IN  \A k \in 1..Len(seq) : RefLe(casts[k].end, RefPlus(timeLimit, tol))

\* every cast is of an action that is available at or before timeLimit
AvailableInTime(seq) ==
    LET casts == Replay(seq).casts
    IN  \A k \in 1..Len(seq) : RefLe(casts[k].avail, timeLimit)

\* Legal sequences, grown one cast at a time from the frontier (legality is
\* prefix-closed).  strict: the cast must end by timeLimit; otherwise it must
\* end by timeLimit + tol and be of an action available by timeLimit.
IsLegal(seq, strict, tol) ==
    IF strict THEN EndsWithin(seq, [w |-> 0, e |-> 0])
    ELSE EndsWithin(seq, tol) /\ AvailableInTime(seq)

RECURSIVE LegalFrom(_, _, _)
LegalFrom(frontier, strict, tol) ==
    IF frontier = {} THEN {}
    ELSE frontier \cup
         LegalFrom({ t \in { Append(s, i) : s \in frontier, i \in 1..NSkills } :
                       IsLegal(t, strict, tol) },
                   strict, tol)

LegalSequences(strict, tol) == LegalFrom({ <<>> }, strict, tol)
MaxLegalDamage(strict, tol) ==
    MaxOf({ RefDamage(s) : s \in LegalSequences(strict, tol) })

\* the tolerance each exhaustive variant applies
VariantTolerance == IF variant = "cpp_dfs" THEN RefEps ELSE [w |-> 0, e |-> 0]

(***************************************************************************)
(* C1                                                                      *)
(***************************************************************************)
\* C1 as stated: the exhaustive search returns the maximum total damage over
\* all cast sequences in which every cast ends at or before timeLimit.
C1_AsStated ==
    (Returned /\ IsDfs) =>
        sr.totalDamage = MaxLegalDamage(TRUE, [w |-> 0, e |-> 0])

\* C1 (amended): the exhaustive search returns the maximum total damage over
\* all cast sequences in which every cast is of an action whose
\* nextAvailableTime is at most timeLimit and ends at or before timeLimit
\* plus the variant's tolerance (EPS in main.cpp, none in main.ts); the
\* returned sequence is such a sequence and carries that damage.
C1_Exact ==
    (Returned /\ IsDfs) =>
        /\ sr.totalDamage = MaxLegalDamage(FALSE, VariantTolerance)
        /\ IsLegal(sr.sequence, FALSE, VariantTolerance)
        /\ RefDamage(sr.sequence) = sr.totalDamage

\* the sequences that cast only action i
OnlyAction(i, strict, tol) ==
    { s \in LegalSequences(strict, tol) : \A k \in 1..Len(s) : s[k] = i }

\* Scenario B is reached: two actions, and the returned sequence interleaves
\* both and beats every sequence that repeats only the higher-single-hit one.
C1_Witness ==
    /\ Returned /\ IsDfs /\ NSkills = 2
    /\ skills[1].damage # skills[2].damage
    /\ { sr.sequence[k] : k \in 1..Len(sr.sequence) } = { 1, 2 }
    /\ LET hi == IF skills[1].damage > skills[2].damage THEN 1 ELSE 2
       IN  sr.totalDamage >
             MaxOf({ RefDamage(s) : s \in OnlyAction(hi, FALSE, VariantTolerance) })


(***************************************************************************)
(* C2                                                                      *)
(***************************************************************************)
\* C2 as stated: replaying a returned bestSequence from the root state, every
\* cast ends at or before timeLimit and starts no earlier than its action's
\* nextAvailableTime at that point.
C2_AsStated ==
    Returned =>
        LET casts == Replay(sr.sequence).casts
        IN  \A k \in 1..Len(casts) :
                /\ RefLe(casts[k].end, timeLimit)
                /\ RefLe(casts[k].avail, casts[k].start)

\* C2 (amended): replaying a returned bestSequence from the root state, every
\* cast ends at or before timeLimit + EPS and starts no earlier than its
\* action's nextAvailableTime at that point.
C2_WithinTolerance ==
    Returned =>
        LET casts == Replay(sr.sequence).casts
        IN  \A k \in 1..Len(casts) :
                /\ RefLe(casts[k].end, RefPlus(timeLimit, RefEps))
                /\ RefLe(casts[k].avail, casts[k].start)

\* a returned schedule in which one cast waited for its cooldown and the
\* last cast ends after timeLimit, within the tolerance
C2_Witness ==
    /\ Returned
    /\ LET casts == Replay(sr.sequence).casts
       IN  /\ Len(casts) >= 2
           /\ \E k \in 2..Len(casts) :
                casts[k].start = casts[k].avail /\ casts[k].start # casts[k - 1].end
           /\ ~RefLe(casts[Len(casts)].end, timeLimit)

(***************************************************************************)
(* C3                                                                      *)
(***************************************************************************)
ExhaustiveVariants == { "ts_dfs", "cpp_dfs" }
ExhaustiveDamage(v) == ExhaustiveSearch(v, skills, Gear, timeLimit).totalDamage

\* C3: for the same roster, assignment and timeLimit, and whatever the
\* retention capacity K and the checkpoint width W, the exhaustive search
\* returns at least the damage the bounded-frontier search returns.
C3_ExhaustiveAtLeastBounded ==
    (Returned /\ variant = "ts_bfs") =>
        \A v \in ExhaustiveVariants : ExhaustiveDamage(v) >= sr.totalDamage

\* a bounded-frontier search that dropped states and returned strictly less
\* than the exhaustive search of main.ts
C3_Witness ==
    /\ Returned /\ variant = "ts_bfs"
    /\ bfsRun.dropped
    /\ capacity < HEAP_CAPACITY
    /\ ExhaustiveDamage("ts_dfs") > sr.totalDamage

(***************************************************************************)
(* C4                                                                      *)
(***************************************************************************)
\* C4 as stated: when no generated successor was pruned or evicted, the
\* bounded-frontier search returns the damage the exhaustive search returns.
C4_AsStated ==
    (Returned /\ variant = "ts_bfs" /\ ~bfsRun.dropped) =>
        \A v \in ExhaustiveVariants : ExhaustiveDamage(v) = sr.totalDamage

\* what does hold: without pruning or eviction the bounded-frontier search
\* returns the damage of main.ts's exhaustive search, which, like it, applies
\* no tolerance
C4_AgreesWithTs ==
    (Returned /\ variant = "ts_bfs" /\ ~bfsRun.dropped) =>
        ExhaustiveDamage("ts_dfs") = sr.totalDamage

(***************************************************************************)
(* C5                                                                      *)
(***************************************************************************)
Done == pc = "done"

\* C5: the reported bestDamage is the maximum of the damages the searches
\* returned for the enumerated assignments: every assignment was searched,
\* none returned more, one returned exactly bestDamage; and for the
\* exhaustive variants the damage recorded for an assignment is the damage
\* the search returns for it.
C5_BestIsMax ==
    Done =>
        /\ Len(comboDamages) = Len(allGearCombos)
        /\ \A k \in 1..Len(comboDamages) : comboDamages[k] <= topDamage
        /\ \E k \in 1..Len(comboDamages) : comboDamages[k] = topDamage
        /\ IsDfs => \A k \in 1..Len(comboDamages) :
             comboDamages[k] =
               ExhaustiveSearch(variant, skills, allGearCombos[k], timeLimit).totalDamage

\* a finished run in which a later assignment beat an earlier one and a
\* still later one did not
C5_Witness ==
    /\ Done
    /\ \E j, k, l \in 1..Len(comboDamages) :
         /\ j < k /\ k < l
         /\ comboDamages[j] < comboDamages[k]
         /\ comboDamages[l] < comboDamages[k]

(***************************************************************************)
(* C6                                                                      *)
(***************************************************************************)
RECURSIVE RefCost(_)
RefCost(gearCombo) ==
    IF gearCombo = <<>> THEN 0
    ELSE RefCost(SubSeq(gearCombo, 1, Len(gearCombo) - 1)) + gearCombo[Len(gearCombo)]

\* the enumerated assignments whose search returned the final bestDamage
Tied == { k \in 1..Len(comboDamages) : comboDamages[k] = topDamage }

\* C6 as stated: the chosen assignment is one of the assignments whose
\* search returned the final bestDamage, and none of those has a smaller
\* sum of modifier percentages.
C6_AsStated ==
    Done =>
        /\ \E k \in Tied : allGearCombos[k] = bestGear
        /\ \A k \in Tied : RefCost(bestGear) <= RefCost(allGearCombos[k])

\* what does hold: in the TypeScript variants the tie-break is as stated
C6_TsTieBreak == (Done /\ variant # "cpp_dfs") => C6_AsStated

(***************************************************************************)
(* C7                                                                      *)
(***************************************************************************)
NOptions(i) == Len(skills[i].possibleSkillGear)

RECURSIVE ProductFrom(_)
ProductFrom(i) == IF i > NSkills THEN 1 ELSE NOptions(i) * ProductFrom(i + 1)

\* C7: the enumeration is the Cartesian product of the modifierOptions in
\* lexicographic order: there are prod |modifierOptions_i| assignments, and
\* the k-th holds, at index i, the option of action i whose position is the
\* i-th digit of k - 1 in the mixed radix of the option counts (the first
\* action the most significant digit).
C7_CartesianProduct ==
    pc # "start" =>
        /\ Len(allGearCombos) = ProductFrom(1)
        /\ \A k \in 1..Len(allGearCombos) :
             /\ Len(allGearCombos[k]) = NSkills
             /\ \A i \in 1..NSkills :
                  allGearCombos[k][i] =
                    skills[i].possibleSkillGear[
                        (((k - 1) \div ProductFrom(i + 1)) % NOptions(i)) + 1]

\* an enumeration over at least two actions with two options each
C7_Witness ==
    /\ pc # "start"
    /\ Len(allGearCombos) >= 4
    /\ \E i, j \in 1..NSkills : i # j /\ NOptions(i) = 2 /\ NOptions(j) = 2


(***************************************************************************)
(* C8                                                                      *)
(***************************************************************************)
Prefix(seq, n) == SubSeq(seq, 1, n)
IsPrefix(s, t) == Len(s) <= Len(t) /\ Prefix(t, Len(s)) = s

\* the search states the bounded-frontier search holds: queued or in expansion
BfsStates ==
    { bfsRun.queue[k] : k \in 1..Len(bfsRun.queue) } \cup { bfsRun.state }

\* C8: in every search state of either strategy the cumulative damage is the
\* sum of damagePerCast over the casts recorded so far, so it grows by
\* exactly damagePerCast_i at a cast of action i and never decreases along a
\* path; the best damage held, and the maxDamage returned, is the sum of
\* damagePerCast over the best sequence.
C8_DamageIsSumOfCasts ==
    /\ (Searching /\ IsDfs) =>
         /\ \A f \in 1..Len(dfsRun.stack) :
              dfsRun.stack[f].totalDamageSoFar =
                RefDamage(Prefix(dfsRun.castSequence, f - 1))
         /\ \A f \in 2..Len(dfsRun.stack) :
              /\ dfsRun.stack[f].totalDamageSoFar >= dfsRun.stack[f - 1].totalDamageSoFar
              /\ dfsRun.stack[f].totalDamageSoFar =
                   dfsRun.stack[f - 1].totalDamageSoFar
                     + skills[dfsRun.castSequence[f - 1]].damage
         /\ dfsRun.bestDamageSoFar = RefDamage(dfsRun.bestSequenceSoFar)
    /\ (Searching /\ variant = "ts_bfs") =>
         /\ \A st \in BfsStates : st.damageSoFar = RefDamage(st.castSequence)
         /\ \A st, parent \in BfsStates :
              IsPrefix(parent.castSequence, st.castSequence) =>
                parent.damageSoFar <= st.damageSoFar
         /\ bfsRun.bestDamage = RefDamage(bfsRun.bestSequence)
    /\ Returned => sr.totalDamage = RefDamage(sr.sequence)

\* a search three casts deep over two actions, and a returned schedule of at
\* least two casts
C8_Witness ==
    \/ /\ pc = "search" /\ IsDfs
       /\ Len(dfsRun.stack) >= 4
       /\ \E j, k \in 1..Len(dfsRun.castSequence) :
            dfsRun.castSequence[j] # dfsRun.castSequence[k]
       /\ dfsRun.bestDamageSoFar > 0
    \/ /\ Returned /\ variant = "ts_bfs"
       /\ Len(sr.sequence) >= 2 /\ sr.totalDamage > 0

(***************************************************************************)
(* C9                                                                      *)
(***************************************************************************)
\* the cast histories of the running search
CastLogs ==
    IF IsDfs THEN { dfsRun.castLog } ELSE { st.castLog : st \in BfsStates }

\* C9: in every cast history of either strategy a cast lasts castDuration,
\* and a later cast of the same action starts at or after the end of the
\* earlier one plus the action's effective cooldown.
C9_NoOverlap ==
    Searching =>
        \A log \in CastLogs :
            /\ \A k \in 1..Len(log) :
                 log[k].end = RefPlus(log[k].start, skills[log[k].skill].castTimeS)
            /\ \A j, k \in 1..Len(log) :
                 (j < k /\ log[j].skill = log[k].skill) =>
                    RefLe(RefPlus(log[j].end, RefCooldown(log[j].skill)), log[k].start)

\* a history in which an action with a cooldown is cast again the moment the
\* cooldown ends, after a cast of another action
C9_Witness ==
    /\ Searching
    /\ \E log \in CastLogs : \E j, k \in 1..Len(log) :
         /\ j + 1 < k
         /\ log[j].skill = log[k].skill
         /\ RefCooldown(log[j].skill).w > 0
         /\ log[k].start = RefPlus(log[j].end, RefCooldown(log[j].skill))

(***************************************************************************)
(* C10                                                                     *)
(***************************************************************************)
\* the time limit plus tol is smaller than every action's castDuration
ShorterThanEveryCast(tol) ==
    \A i \in 1..NSkills : ~RefLe(skills[i].castTimeS, RefPlus(timeLimit, tol))

NothingCast == sr.totalDamage = 0 /\ sr.sequence = <<>>

\* C10 as stated: if timeLimit is smaller than every action's castDuration,
\* the search returns maxDamage 0 and an empty sequence.
C10_AsStated ==
    (Returned /\ ShorterThanEveryCast([w |-> 0, e |-> 0])) => NothingCast

\* C10 (amended): if timeLimit + EPS is smaller than every action's
\* castDuration, the search returns maxDamage 0 and an empty sequence.
C10_BeyondTolerance ==
    (Returned /\ ShorterThanEveryCast(RefEps)) => NothingCast

\* a search has returned for a roster none of whose casts fits
C10_Witness ==
    /\ Returned
    /\ ShorterThanEveryCast(RefEps)
    /\ \E i \in 1..NSkills : skills[i].damage > 0

(***************************************************************************)
(* C11: single-action rosters, searched under their own specification      *)
(***************************************************************************)
MaxSoloTimeLimit == 11  \* timeLimit ranges over 1..MaxSoloTimeLimit seconds

\* Scenario A; a cast half of EPS longer than a second; a cast without
\* damage; an action with two modifier options
SoloPool ==
    { Skill(Seconds(1), 5, 10, <<0>>),
      Skill(Time(100, 1), 0, 2, <<0>>),
      Skill(Seconds(1), 1, 0, <<0>>),
      Skill(Seconds(2), 2, 3, <<50, 0>>) }

InitSolo ==
    /\ variant \in Variants
    /\ skills \in { << s >> : s \in SoloPool }
    /\ timeLimit \in { Seconds(s) : s \in 1..MaxSoloTimeLimit }
    /\ capacity \in (IF variant = "ts_bfs" THEN Capacities ELSE { HEAP_CAPACITY })
    /\ width \in (IF variant = "ts_bfs" THEN Widths ELSE { CHECKPOINT_WIDTH })
    /\ pc = "start"
    /\ allGearCombos = <<>>
    /\ ci = 1
    /\ sr = [totalDamage |-> 0, sequence |-> <<>>]
    /\ topDamage = 0
    /\ topSequence = <<>>
    /\ bestGear = <<>>
    /\ bestGearCost = Infinity
    /\ comboDamages = <<>>
    /\ dfsRun = DfsIdle
    /\ bfsRun = BfsIdle

SpecSolo == InitSolo /\ [][Next]_vars

\* one action, modifier 0, castDuration c > 0 and timeLimit T >= c
SoloCase ==
    /\ NSkills = 1
    /\ Gear = << 0 >>
    /\ ~RefLe(skills[1].castTimeS, [w |-> 0, e |-> 0])
    /\ RefLe(skills[1].castTimeS, timeLimit)

\* the end of the n-th back-to-back cast: n * c + (n - 1) * d
SoloEnd(n) ==
    [w |-> n * skills[1].castTimeS.w + (n - 1) * 100 * skills[1].recastTimeS,
     e |-> n * skills[1].castTimeS.e]

\* floor((T + tol - c) / (c + d)) + 1: the largest n whose n-th cast ends by
\* T + tol (c has at least a hundredth of a second, so n <= T.w)
SoloCount(tol) ==
    MaxOf({ n \in 0..timeLimit.w :
              n = 0 \/ RefLe(SoloEnd(n), RefPlus(timeLimit, tol)) })

ScenarioA ==
    /\ skills = << Skill(Seconds(1), 5, 10, <<0>>) >>
    /\ timeLimit = Seconds(11)

\* C11 as stated: for one action with castDuration c > 0, baseCooldown d,
\* modifier 0 and timeLimit T >= c, the search returns exactly
\* floor((T - c)/(c + d)) + 1 casts and that count times damagePerCast.
C11_AsStated ==
    (Returned /\ SoloCase) =>
        /\ Len(sr.sequence) = SoloCount([w |-> 0, e |-> 0])
        /\ sr.totalDamage = SoloCount([w |-> 0, e |-> 0]) * skills[1].damage

\* C11 (amended): if moreover damagePerCast > 0, the search returns at least
\* floor((T - c)/(c + d)) + 1 and at most floor((T + EPS - c)/(c + d)) + 1
\* casts, and maxDamage is the number of casts times damagePerCast; in
\* Scenario A that is 2 casts and maxDamage 20.
C11_WithinTolerance ==
    (Returned /\ SoloCase /\ skills[1].damage > 0) =>
        /\ SoloCount([w |-> 0, e |-> 0]) <= Len(sr.sequence)
        /\ Len(sr.sequence) <= SoloCount(RefEps)
        /\ sr.totalDamage = Len(sr.sequence) * skills[1].damage
        /\ ScenarioA => (Len(sr.sequence) = 2 /\ sr.totalDamage = 20)

\* Scenario A has been searched and returned its two casts
C11_Witness ==
    /\ Returned /\ SoloCase /\ ScenarioA
    /\ sr.sequence = << 1, 1 >>
    /\ sr.totalDamage = 20

(***************************************************************************)
(* C12: inputs outside the data model.  No file validates its input, so    *)
(* the optimizer runs on them as on any other; they get a specification of *)
(* their own.  (A negative castTimeS is left out: time would run backwards *)
(* and the exhaustive search need not end.)                                *)
(***************************************************************************)
\* negative damage; a 100 % modifier; no modifier option; negative cooldown
InvalidPool ==
    { Skill(Seconds(1), 1, -1, <<0>>),
      Skill(Seconds(1), 2, 3, <<100>>),
      Skill(Seconds(1), 2, 3, <<>>),
      Skill(Seconds(1), -1, 3, <<0>>) }

\* a roster with an invalid action, alone or next to a valid one
InvalidRosters ==
    { << b >> : b \in InvalidPool }
      \cup { << g, b >> : g \in SkillPool, b \in InvalidPool }
      \cup { << b, g >> : g \in SkillPool, b \in InvalidPool }

InitInvalid ==
    /\ variant \in Variants
    /\ \/ skills \in InvalidRosters /\ timeLimit \in TimeLimits \cup { Zero }
       \/ skills \in Rosters /\ timeLimit = Zero
    /\ capacity \in (IF variant = "ts_bfs" THEN Capacities ELSE { HEAP_CAPACITY })
    /\ width \in (IF variant = "ts_bfs" THEN Widths ELSE { CHECKPOINT_WIDTH })
    /\ pc = "start"
    /\ allGearCombos = <<>>
    /\ ci = 1
    /\ sr = [totalDamage |-> 0, sequence |-> <<>>]
    /\ topDamage = 0
    /\ topSequence = <<>>
    /\ bestGear = <<>>
    /\ bestGearCost = Infinity
    /\ comboDamages = <<>>
    /\ dfsRun = DfsIdle
    /\ bfsRun = BfsIdle

SpecInvalid == InitInvalid /\ [][Next]_vars

\* the input breaks the data model: a negative castDuration, baseCooldown or
\* damage, an empty modifierOptions, a modifier >= 100, or timeLimit <= 0
InvalidInput ==
    \/ RefLe(timeLimit, [w |-> 0, e |-> 0])
    \/ \E i \in 1..NSkills :
         \/ skills[i].castTimeS.w < 0 \/ skills[i].castTimeS.e < 0
         \/ skills[i].recastTimeS < 0
         \/ skills[i].damage < 0
         \/ skills[i].possibleSkillGear = <<>>
         \/ \E k \in 1..Len(skills[i].possibleSkillGear) :
              skills[i].possibleSkillGear[k] >= 100

\* C12: on an input with a negative castDuration, baseCooldown or damage, an
\* empty modifierOptions, a modifier >= 100 or a non-positive timeLimit the
\* optimizer ends in an error and never returns a result.
C12_AsStated == InvalidInput => ~Done

(***************************************************************************)
(* C13: actions that take no time.  The data model allows castDuration 0   *)
(* and baseCooldown 0; the searches over such rosters are unbounded, so    *)
(* their specification stops a branch at MaxDepth casts.                   *)
(***************************************************************************)
MaxDepth == 4   \* casts on one branch under SpecZero

\* no time and no cooldown; no time and a cooldown
ZeroPool ==
    { Skill(Zero, 0, 1, <<0>>),
      Skill(Zero, 1, 2, <<0, 50>>) }

ZeroRosters ==
    { << z >> : z \in ZeroPool }
      \cup { << g, z >> : g \in SkillPool, z \in ZeroPool }
      \cup { << z, g >> : g \in SkillPool, z \in ZeroPool }

InitZero ==
    /\ variant \in Variants
    /\ skills \in ZeroRosters
    /\ timeLimit \in TimeLimits
    /\ capacity \in (IF variant = "ts_bfs" THEN Capacities ELSE { HEAP_CAPACITY })
    /\ width \in (IF variant = "ts_bfs" THEN Widths ELSE { CHECKPOINT_WIDTH })
    /\ pc = "start"
    /\ allGearCombos = <<>>
    /\ ci = 1
    /\ sr = [totalDamage |-> 0, sequence |-> <<>>]
    /\ topDamage = 0
    /\ topSequence = <<>>
    /\ bestGear = <<>>
    /\ bestGearCost = Infinity
    /\ comboDamages = <<>>
    /\ dfsRun = DfsIdle
    /\ bfsRun = BfsIdle

DfsCastBounded == Len(dfsRun.castSequence) < MaxDepth /\ DfsCast
BfsKeepBounded == Len(bfsRun.state.castSequence) < MaxDepth /\ BfsKeep
BfsReplaceBounded == Len(bfsRun.state.castSequence) < MaxDepth /\ BfsReplace

NextBounded ==
    \/ GenerateCombos
    \/ CallSearch
    \/ DfsSkip
    \/ DfsCastBounded
    \/ DfsReturn
    \/ DfsFinish
    \/ BfsDequeue
    \/ BfsSkip
    \/ BfsKeepBounded
    \/ BfsReplaceBounded
    \/ BfsPrune
    \/ BfsFinish
    \/ UpdateTop
    \/ Finish

SpecZero == InitZero /\ [][NextBounded]_vars

\* the roster satisfies the data model and timeLimit is positive
ValidInput == ~InvalidInput

\* the last cast of the running branch left the search state (currentTime
\* and the nextAvailableTime of every action) as it was before the cast
DfsCastStoodStill ==
    /\ pc = "search" /\ IsDfs /\ Len(dfsRun.stack) >= 2
    /\ LET n == Len(dfsRun.stack)
           parent == dfsRun.stack[n - 1]
       IN  /\ dfsRun.stack[n].currentTime = parent.currentTime
           /\ dfsRun.nextAvailTimes[parent.i] = parent.oldNextAvail

\* a queued successor of the state in expansion has that state's currentTime
\* and nextAvailableTime
BfsCastStoodStill ==
    /\ BfsExpanding
    /\ \E k \in 1..Len(bfsRun.queue) :
         /\ Len(bfsRun.queue[k].castSequence) = Len(bfsRun.state.castSequence) + 1
         /\ IsPrefix(bfsRun.state.castSequence, bfsRun.queue[k].castSequence)
         /\ bfsRun.queue[k].currentTime = bfsRun.state.currentTime
         /\ bfsRun.queue[k].nextAvail = bfsRun.state.nextAvail

\* C13: on every input that satisfies the data model every branch of the
\* exhaustive search ends and the queue of the bounded-frontier search runs
\* empty.  What a state expands to depends on its currentTime and
\* nextAvailableTime only, so a cast that leaves both as they were can be
\* repeated without end: on a search that ends, every cast advances one of
\* them.
C13_AsStated ==
    ValidInput => ~(DfsCastStoodStill \/ BfsCastStoodStill)

(***************************************************************************)
(* C14                                                                     *)
(***************************************************************************)
\* what the search of the current strategy returns for the current roster,
\* assignment and timeLimit when it is run on its own
FreshResult ==
    IF IsDfs THEN ExhaustiveSearch(variant, skills, Gear, timeLimit)
    ELSE BoundedSearch(skills, Gear, timeLimit, capacity, width)

\* C14: whatever searches came before it, a search returns the result that a
\* fresh search of the same strategy returns for the same roster, assignment
\* and timeLimit; and no step of a search changes the roster, the
\* assignments or the timeLimit.
C14_Independent ==
    /\ [](Returned => sr = FreshResult)
    /\ [][Searching => /\ skills' = skills
                       /\ allGearCombos' = allGearCombos
                       /\ timeLimit' = timeLimit]_vars

\* a search has returned after an earlier search of another assignment that
\* returned more damage, with another sequence
C14_Witness ==
    /\ Returned /\ ci >= 2
    /\ comboDamages[ci - 1] > sr.totalDamage
    /\ sr.totalDamage > 0
    /\ topSequence # sr.sequence

(***************************************************************************)
(* C15                                                                     *)
(***************************************************************************)
\* the casts that led to the dfs call on top of the stack: every caller
\* below it stands at the skill it cast
PathOfTop == [k \in 1..(Len(dfsRun.stack) - 1) |-> dfsRun.stack[k].i]

\* C15: at every iteration of the loop of every dfs call, and when the call
\* is about to return, nextAvailTimes and castSequence are what they were
\* when the call was entered (the casts on the way to it, replayed from the
\* root); when the top-level call has returned, nextAvailTimes is all zeros
\* and castSequence is empty.
C15_UndoOnBacktrack ==
    IsDfs =>
        /\ (pc = "search" /\ dfsRun.stack # <<>>) =>
              /\ dfsRun.castSequence = PathOfTop
              /\ dfsRun.nextAvailTimes = Replay(PathOfTop).avail
        /\ Returned =>
              /\ dfsRun.castSequence = <<>>
              /\ dfsRun.nextAvailTimes = [i \in 1..NSkills |-> Zero]

\* a recursive call is at its second skill: its call for skill 1 has
\* returned (the best sequence goes through it) and had moved
\* nextAvailTimes[1]
C15_Witness ==
    /\ IsDfs /\ pc = "search"
    /\ Len(dfsRun.stack) >= 2
    /\ NSkills = 2 /\ Top(dfsRun).i = 2
    /\ IsPrefix(Append(dfsRun.castSequence, 1), dfsRun.bestSequenceSoFar)
    /\ Replay(Append(PathOfTop, 1)).avail[1] # dfsRun.nextAvailTimes[1]

(***************************************************************************)
(* C16                                                                     *)
(***************************************************************************)
Heaps == bfsRun.topStatesPerCheckpoint

\* C16: at every point of the bounded-frontier search every checkpoint's heap
\* holds at most capacity states, the checkpoint is a multiple of the width,
\* and every state in the heap ended its last cast in the width seconds that
\* start at the checkpoint.
C16_HeapsBounded ==
    variant = "ts_bfs" =>
        \A cp \in DOMAIN Heaps :
            /\ Len(Heaps[cp]) <= capacity
            /\ cp % width = 0
            /\ \A j \in 1..Len(Heaps[cp]) :
                 /\ 100 * cp <= Heaps[cp][j].currentTime.w
                 /\ Heaps[cp][j].currentTime.w < 100 * (cp + width)

\* two checkpoints have heaps, one of them is full, and a state has been
\* turned away from a full heap or evicted from it
C16_Witness ==
    /\ variant = "ts_bfs" /\ pc = "search"
    /\ bfsRun.dropped
    /\ \E cp1, cp2 \in DOMAIN Heaps :
         /\ cp1 # cp2
         /\ Len(Heaps[cp1]) = capacity
         /\ Len(Heaps[cp2]) > 0

(***************************************************************************)
(* C17                                                                     *)
(***************************************************************************)
\* the expansion loop is at a skill whose cast is not skipped: a successor
\* is generated in the next step
Generating ==
    /\ BfsExpanding
    /\ ~Skipped(variant, skills, timeLimit, bfsRun.state.currentTime,
                bfsRun.state.nextAvail, bfsRun.i)

Successor == NewState(bfsRun, skills, Recast)
SuccessorCheckpoint == Checkpoint(Successor.currentTime, width)
SuccessorHeap == HeapAt(bfsRun, SuccessorCheckpoint)

\* the heap of the successor's checkpoint has fewer than capacity entries
FewerThanK == Len(SuccessorHeap) < capacity

\* the successor's damage is above the least damage in that heap
ExceedsMinimum ==
    \E j \in 1..Len(SuccessorHeap) :
        SuccessorHeap[j].damageSoFar < Successor.damageSoFar

IsMinimumEntry(heap, j) ==
    \A l \in 1..Len(heap) : heap[j].damageSoFar <= heap[l].damageSoFar

\* C17, the step that generates a successor: the successor is put on the
\* work queue iff its checkpoint's heap has fewer than capacity entries or
\* its damage is above the least damage in the heap; with room it joins the
\* heap, without room it takes the place of exactly one entry of least
\* damage, and otherwise neither the queue, nor any heap, nor the global
\* best changes.
C17_GenerationStep ==
    Generating =>
        LET heapAfter == HeapAt(bfsRun', SuccessorCheckpoint)
        IN  /\ (bfsRun'.queue = Append(bfsRun.queue, Successor))
                  <=> (FewerThanK \/ ExceedsMinimum)
            /\ (bfsRun'.queue = bfsRun.queue)
                  <=> ~(FewerThanK \/ ExceedsMinimum)
            /\ FewerThanK => heapAfter = Append(SuccessorHeap, Successor)
            /\ (~FewerThanK /\ ExceedsMinimum) =>
                  \E j \in 1..Len(SuccessorHeap) :
                      /\ IsMinimumEntry(SuccessorHeap, j)
                      /\ heapAfter =
                           Append(RemoveAt(SuccessorHeap, j), Successor)
            /\ ~(FewerThanK \/ ExceedsMinimum) =>
                  /\ heapAfter = SuccessorHeap
                  /\ bfsRun'.bestDamage = bfsRun.bestDamage
                  /\ bfsRun'.bestSequence = bfsRun.bestSequence
            /\ \A cp \in DOMAIN bfsRun.topStatesPerCheckpoint \ { SuccessorCheckpoint } :
                  HeapAt(bfsRun', cp) = HeapAt(bfsRun, cp)

\* C17: every generated successor is enqueued iff its checkpoint's heap has
\* room or it beats the heap's minimum (which it then replaces), and a
\* successor that was not kept is never on the work queue, never expanded
\* and never the global best.
C17_EnqueuedIffKept ==
    /\ [][C17_GenerationStep]_vars
    /\ [](variant = "ts_bfs" =>
            \A st \in bfsRun.pruned :
                /\ \A k \in 1..Len(bfsRun.queue) : bfsRun.queue[k] # st
                /\ bfsRun.state # st
                /\ bfsRun.bestSequence # st.castSequence)

\* a search in which one successor has been turned away, another has
\* replaced a minimum, and a third has been kept since
C17_Witness ==
    /\ variant = "ts_bfs" /\ pc = "search"
    /\ bfsRun.pruned # {}
    /\ bfsRun.evicted # {}
    /\ \E k \in 1..Len(bfsRun.queue) :
         /\ bfsRun.queue[k] \notin bfsRun.evicted
         /\ \E st \in bfsRun.pruned :
              Len(st.castSequence) < Len(bfsRun.queue[k].castSequence)

(***************************************************************************)
(* C18                                                                     *)
(***************************************************************************)
\* the next step is const state = queue.dequeue()
Dequeuing ==
    /\ pc = "search" /\ variant = "ts_bfs"
    /\ bfsRun.i > Len(skills)
    /\ bfsRun.queue # <<>>

\* C18: a state that heap.dequeue() has removed from its checkpoint's heap
\* is not taken from the work queue afterwards: no dequeue step takes a state
\* that has been evicted.
C18_AsStated ==
    [][Dequeuing => Head(bfsRun.queue) \notin bfsRun.evicted]_vars

\* what does hold: eviction removes a state from its heap only; every
\* evicted state was put on the work queue when it was generated and is
\* either still there or has been dequeued, so it is expanded like any other
C18_EvictedStaysQueued ==
    [][(Generating /\ ~FewerThanK /\ ExceedsMinimum) =>
          /\ Len(bfsRun'.queue) = Len(bfsRun.queue) + 1
          /\ \A k \in 1..Len(bfsRun.queue) : bfsRun'.queue[k] = bfsRun.queue[k]]_vars

(***************************************************************************)
(* C19                                                                     *)
(***************************************************************************)
\* the loop of a search is at skill i of a state: its time, its
\* nextAvailableTime buffer, and i
AtSkill ==
    IF IsDfs
    THEN pc = "search" /\ dfsRun.stack # <<>> /\ Top(dfsRun).i <= NSkills
    ELSE BfsExpanding

LoopTime == IF IsDfs THEN Top(dfsRun).currentTime ELSE bfsRun.state.currentTime
LoopAvail == IF IsDfs THEN dfsRun.nextAvailTimes ELSE bfsRun.state.nextAvail
LoopSkill == IF IsDfs THEN Top(dfsRun).i ELSE bfsRun.i

\* when the cast of the skill the loop is at would end
LoopCastEnd ==
    LET avail == LoopAvail[LoopSkill]
        start == IF RefLe(LoopTime, avail) THEN avail ELSE LoopTime
    IN  RefPlus(start, skills[LoopSkill].castTimeS)

Accepted ==
    ~Skipped(variant, skills, timeLimit, LoopTime, LoopAvail, LoopSkill)

\* C19 as stated: in every variant, for every state and skill the loop of a
\* search comes to, the cast is accepted iff its castEnd is at most
\* timeLimit + EPS.
C19_AsStated ==
    AtSkill => (Accepted <=> RefLe(LoopCastEnd, RefPlus(timeLimit, RefEps)))

\* what does hold: each variant accepts every cast that ends by timeLimit and
\* none that ends after timeLimit + EPS; in between the variants differ
C19_AgreeOutsideTolerance ==
    AtSkill =>
        /\ RefLe(LoopCastEnd, timeLimit) => Accepted
        /\ Accepted => RefLe(LoopCastEnd, RefPlus(timeLimit, RefEps))

(***************************************************************************)
(* C20                                                                     *)
(***************************************************************************)
\* the step is a cast of the exhaustive search: a dfs call is pushed
DfsCasting ==
    /\ IsDfs /\ pc = "search" /\ dfsRun.stack # <<>>
    /\ Len(dfsRun'.stack) = Len(dfsRun.stack) + 1

\* the step is a cast of the bounded-frontier search whose successor is kept
BfsCasting ==
    /\ Generating
    /\ Len(bfsRun'.queue) = Len(bfsRun.queue) + 1

\* from nextAvailableTime before to after by a cast of skill i ending at
\* castEnd: skill i moves to castEnd + its effective cooldown, not
\* backwards, and no other skill moves
CastAdvances(before, after, i, castEnd) ==
    /\ after[i] = RefPlus(castEnd, RefCooldown(i))
    /\ RefLe(before[i], after[i])
    /\ \A j \in 1..NSkills : j # i => after[j] = before[j]

\* C20: every cast of skill i, in either strategy, sets nextAvailableTime[i]
\* to castEnd plus the effective cooldown, which is at least its value
\* before, and leaves nextAvailableTime of the other skills unchanged; and
\* along the path of casts to the current dfs call the values saved for a
\* skill never decrease and are at most its value now.
C20_NeverDecreases ==
    /\ [][DfsCasting =>
            CastAdvances(dfsRun.nextAvailTimes, dfsRun'.nextAvailTimes,
                         Top(dfsRun).i, Top(dfsRun').currentTime)]_vars
    /\ [][BfsCasting =>
            LET kept == bfsRun'.queue[Len(bfsRun'.queue)]
            IN  CastAdvances(bfsRun.state.nextAvail, kept.nextAvail,
                             bfsRun.i, kept.currentTime)]_vars
    /\ []((IsDfs /\ pc = "search") =>
            \A k \in 1..(Len(dfsRun.stack) - 1) :
                /\ RefLe(dfsRun.stack[k].oldNextAvail,
                         dfsRun.nextAvailTimes[dfsRun.stack[k].i])
                /\ \A l \in (k + 1)..(Len(dfsRun.stack) - 1) :
                     dfsRun.stack[l].i = dfsRun.stack[k].i =>
                        RefLe(dfsRun.stack[k].oldNextAvail,
                              dfsRun.stack[l].oldNextAvail))

\* a path on which a skill has been cast, then another skill, then the first
\* again, its nextAvailableTime having moved forward in between
C20_Witness ==
    /\ IsDfs /\ pc = "search"
    /\ \E k, m, l \in 1..(Len(dfsRun.stack) - 1) :
         /\ k < m /\ m < l
         /\ dfsRun.stack[k].i = dfsRun.stack[l].i
         /\ dfsRun.stack[m].i # dfsRun.stack[k].i
         /\ dfsRun.stack[k].oldNextAvail # dfsRun.stack[l].oldNextAvail
         /\ dfsRun.stack[l].oldNextAvail # dfsRun.nextAvailTimes[dfsRun.stack[l].i]

(***************************************************************************)
(* C21                                                                     *)
(***************************************************************************)
\* what the search of the current strategy returns for an assignment
SearchFor(gearCombo) ==
    IF IsDfs THEN ExhaustiveSearch(variant, skills, gearCombo, timeLimit)
    ELSE BoundedSearch(skills, gearCombo, timeLimit, capacity, width)

\* when the last cast of a sequence ends if every cast starts as early as
\* the cooldowns of an assignment allow
RECURSIVE ReplayUnder(_, _)
ReplayUnder(seq, gearCombo) ==
    IF seq = <<>>
    THEN [time |-> [w |-> 0, e |-> 0],
          avail |-> [i \in 1..NSkills |-> [w |-> 0, e |-> 0]]]
    ELSE LET prev == ReplayUnder(SubSeq(seq, 1, Len(seq) - 1), gearCombo)
             i == seq[Len(seq)]
             start == IF RefLe(prev.time, prev.avail[i]) THEN prev.avail[i]
                      ELSE prev.time
             end == RefPlus(start, skills[i].castTimeS)
             cooldown == [w |-> skills[i].recastTimeS * (100 - gearCombo[i]),
                          e |-> 0]
         IN  [time |-> end,
              avail |-> [prev.avail EXCEPT ![i] = RefPlus(end, cooldown)]]

\* the sequence fits the time window (with the tolerance of C2) under the
\* assignment's cooldowns
LegalUnder(seq, gearCombo) ==
    RefLe(ReplayUnder(seq, gearCombo).time, RefPlus(timeLimit, RefEps))

SetupConsistent ==
    /\ topSequence = SearchFor(bestGear).sequence
    /\ LegalUnder(topSequence, bestGear)
    /\ RefDamage(topSequence) = topDamage

\* C21 as stated: when findBestDpsSetup returns, castSequence is the
\* sequence the search returns for chosenGearPercents, it fits the time
\* window under that assignment's cooldowns, and the damage of its casts
\* sums to bestDamage.
C21_AsStated == Done => SetupConsistent

\* what does hold: the result of the TypeScript variants is consistent
C21_TsConsistent == (Done /\ variant # "cpp_dfs") => SetupConsistent

(***************************************************************************)
(* C22                                                                     *)
(***************************************************************************)
\* assignment b has at least the modifier of assignment a for every action
AtLeastModifiers(a, b) == \A i \in 1..NSkills : a[i] <= b[i]

\* C22: for the exhaustive search of a fixed roster and timeLimit, an
\* assignment whose modifiers are all at least those of another assignment
\* has at least its maxDamage, both as the searches of findBestDpsSetup
\* returned them and as the search computes them as a function.
C22_MonotoneInModifiers ==
    IsDfs =>
        /\ \A j, k \in 1..Len(comboDamages) :
              AtLeastModifiers(allGearCombos[j], allGearCombos[k]) =>
                  comboDamages[j] <= comboDamages[k]
        /\ Done =>
              \A j, k \in 1..Len(allGearCombos) :
                  AtLeastModifiers(allGearCombos[j], allGearCombos[k]) =>
                      ExhaustiveSearch(variant, skills, allGearCombos[j],
                                       timeLimit).totalDamage
                        <= ExhaustiveSearch(variant, skills, allGearCombos[k],
                                            timeLimit).totalDamage

\* an exhaustive search of two actions has returned more damage for an
\* assignment with larger modifiers than for one with smaller ones, and
\* has also searched two assignments neither of which has at least the
\* modifiers of the other
C22_Witness ==
    /\ IsDfs /\ Done /\ NSkills = 2
    /\ \E j, k \in 1..Len(comboDamages) :
         /\ AtLeastModifiers(allGearCombos[j], allGearCombos[k])
         /\ comboDamages[j] < comboDamages[k]
    /\ \E j, k \in 1..Len(comboDamages) :
         /\ ~AtLeastModifiers(allGearCombos[j], allGearCombos[k])
         /\ ~AtLeastModifiers(allGearCombos[k], allGearCombos[j])


=============================================================================
